---- MODULE Spec2Model ----
(***************************************************************************)
(* A model of src/filesystem_utils.h: the natural path comparator          *)
(* compare_path_natural and the directory lister list_directory (POSIX     *)
(* branch; the _WIN32 branch has the same control flow).                   *)
(*                                                                         *)
(* A path string is a sequence of character codes (ASCII).  Only codes in  *)
(* 0..127 are used: for a negative char, std::isdigit and std::toupper are *)
(* called outside their domain.                                            *)
(***************************************************************************)
EXTENDS Integers, Sequences, FiniteSets, TLC

VARIABLES
    a0, b0, c0,   \* the arguments of the outermost comparator call(s)
    a, b,         \* the operands of the comparator call now executing
    depth,        \* number of comparator calls entered so far (nesting depth)
    result,       \* <<>> while running, <<v>> once the outermost call returned v
    rel,          \* the comparator's answers on the pairs of a0, b0, c0
    pc,           \* list_directory: position in the function body
    imagepaths,   \* list_directory: the caller's output vector
    dir,          \* list_directory: the DIR* handle: none / null / open / closed
    entries,      \* the entries readdir has returned in this call so far
    closes,       \* number of closedir calls made in this call
    presort,      \* imagepaths as it stood when std::sort was called
    beforeLen,    \* size of imagepaths when list_directory was called
    status        \* <<>> until list_directory returns, then <<its return value>>

vars == <<a0, b0, c0, a, b, depth, result, rel,
          pc, imagepaths, dir, entries, closes, presort, beforeLen, status>>

cmpVars == <<a0, b0, c0, a, b, depth, result, rel>>
listVars == <<pc, imagepaths, dir, entries, closes, presort, beforeLen, status>>

----------------------------------------------------------------------------
(* Bounds of the model *)

\* longest generated operand of the comparator machine
MaxLen == 3
\* longest generated operand in the ordering-law check (triples)
MaxLenOrd == 2
\* most entries one directory enumeration returns
MaxEntries == 3

(* std::numeric_limits<int>::max() for the `int ia, ib` of the comparator *)
INT_MAX == 2147483647

----------------------------------------------------------------------------
(* Characters and strings *)

NL == <<10>>
Alphabet == {49, 97, 65, 10}      \* '1'  'a'  'A'  '\n'

\* a decimal digit sequence as a string: Digits(<<0,0,7>>) is "007"
Digits(ds) == [i \in 1..Len(ds) |-> 48 + ds[i]]

Strs(n) == UNION {[1..k -> Alphabet] : k \in 0..n}

s_img == <<105, 109, 103>>
s_png == <<46, 112, 110, 103>>
s_f == <<102>>
s_a == <<97>>
s_A == <<65>>
s_dot == <<46>>

BigRuns == {Digits(<<2,1,4,7,4,8,3,6,4,7>>),      \* INT_MAX
            Digits(<<2,1,4,7,4,8,3,6,4,8>>),      \* INT_MAX + 1
            Digits(<<3,0,0,0,0,0,0,0,0,0>>),
            Digits(<<9,9,9,9,9,9,9,9,9,9>>)}

ExtraStrs ==
    {s_img \o Digits(<<0,0,7>>) \o s_png, s_img \o Digits(<<7>>) \o s_png,
     s_f \o Digits(<<1>>) \o s_png, s_f \o Digits(<<2>>) \o s_png,
     s_f \o Digits(<<1,0>>) \o s_png, s_f \o Digits(<<2,0>>) \o s_png,
     Digits(<<0,0,7>>), Digits(<<7>>), Digits(<<0,1>>) \o s_a,
     Digits(<<1,0>>), Digits(<<2>>), Digits(<<0>>), Digits(<<0,0>>) \o s_A}
    \cup {r \o t : r \in BigRuns, t \in {<<>>, s_a, s_A, s_dot}}

CmpInputs == Strs(MaxLen) \cup ExtraStrs
OrdInputs == Strs(MaxLenOrd) \cup
             {Digits(<<0,1>>), Digits(<<0,1>>) \o s_a, Digits(<<1>>) \o NL \o s_A,
              Digits(<<2,1,4,7,4,8,3,6,4,7>>) \o s_a,
              Digits(<<2,1,4,7,4,8,3,6,4,7>>),
              Digits(<<3,0,0,0,0,0,0,0,0,0>>) \o s_a,
              Digits(<<9,9,9,9,9,9,9,9,9,9>>) \o s_A,
              Digits(<<9,9,9,9,9,9,9,9,9,9>>),
              Digits(<<2>>), Digits(<<1,0>>), Digits(<<0,0,7>>),
              Digits(<<7>>) \o s_dot, s_dot}

----------------------------------------------------------------------------
(* compare_path_natural, lines 33-66 *)

isdigit(c) == c \in 48..57

toupperNoFold(c) == c
toupper(c) == IF c \in 97..122 THEN c - 32 ELSE c

\* line 35: the value returned when either operand is empty
EmptyRuleLoose(x, y) == x = <<>>
EmptyRule(x, y) == x = <<>> /\ y # <<>>

\* lines 46, 49: the case-insensitive comparison of the leading characters
SameLetter(charA, charB) == toupper(charA) = toupper(charB)
LetterLess(charA, charB) == toupper(charA) < toupper(charB)

\* length of the maximal leading run of decimal digits
RECURSIVE DigitRunLen(_)
DigitRunLen(s) ==
    IF s = <<>> \/ ~isdigit(s[1]) THEN 0 ELSE 1 + DigitRunLen(Tail(s))

\* the digits accumulated left to right into an int; -1 once the value no
\* longer fits (num_get reports the overflow after reading the whole run)
RECURSIVE Accumulate(_, _)
Accumulate(ds, acc) ==
    IF ds = <<>> THEN acc
    ELSE LET d == ds[1] - 48 IN
         IF acc = -1 \/ acc > (INT_MAX - d) \div 10
         THEN Accumulate(Tail(ds), -1)
         ELSE Accumulate(Tail(ds), acc * 10 + d)

\* lines 52-56: `std::istringstream iss(s); int i; iss >> i;` on a string that
\* starts with a digit.  val is the int stored, good is the stream's state
\* afterwards (failbit on overflow, eofbit when the run reaches the end of
\* the string), rest is what the stream has not consumed.
ExtractInt(s) ==
    LET n == DigitRunLen(s)
        v == Accumulate(SubSeq(s, 1, n), 0)
    IN  [val  |-> IF v = -1 THEN INT_MAX ELSE v,
         good |-> v # -1 /\ n < Len(s),
         rest |-> SubSeq(s, n + 1, Len(s))]

\* the characters of s before its first '\n'
RECURSIVE UpToNewline(_)
UpToNewline(s) ==
    IF s = <<>> \/ s[1] = 10 THEN <<>> ELSE <<s[1]>> \o UpToNewline(Tail(s))

\* lines 61-63: `std::string snew; std::getline(iss, snew);` after the
\* extraction: nothing is read from a stream that is not good, and a good
\* stream yields the characters up to the first newline.
getlineWholeRest(st) == st.rest
getline(st) == IF st.good THEN UpToNewline(st.rest) ELSE <<>>

RECURSIVE compare_path_natural(_, _)
compare_path_natural(x, y) ==
    IF x = <<>> \/ y = <<>> THEN EmptyRule(x, y)
    ELSE LET charA == x[1]
             charB == y[1]
         IN  IF isdigit(charA) /\ ~isdigit(charB) THEN TRUE
             ELSE IF ~isdigit(charA) /\ isdigit(charB) THEN FALSE
             ELSE IF ~isdigit(charA) /\ ~isdigit(charB)
                  THEN IF SameLetter(charA, charB)
                       THEN compare_path_natural(Tail(x), Tail(y))
                       ELSE LetterLess(charA, charB)
             ELSE LET issa == ExtractInt(x)
                      issb == ExtractInt(y)
                  IN  IF issa.val # issb.val THEN issa.val < issb.val
                      ELSE compare_path_natural(getline(issa), getline(issb))

----------------------------------------------------------------------------
(* The comparator as a machine: one step per branch of one call.  The      *)
(* recursive calls are tail calls, so the value of the innermost call is   *)
(* the value of the outermost one.                                         *)

NoRel == [ab |-> FALSE, ba |-> FALSE, bc |-> FALSE, cb |-> FALSE,
          ac |-> FALSE, ca |-> FALSE, aa |-> FALSE, done |-> FALSE]

ListIdle ==
    /\ pc = "idle"
    /\ imagepaths = <<>>
    /\ dir = "none"
    /\ entries = <<>>
    /\ closes = 0
    /\ presort = <<>>
    /\ beforeLen = 0
    /\ status = <<>>

CmpInit ==
    /\ a0 \in CmpInputs
    /\ b0 \in CmpInputs
    /\ c0 = <<>>
    /\ a = a0
    /\ b = b0
    /\ depth = 1
    /\ result = <<>>
    /\ rel = NoRel
    /\ ListIdle

Running == result = <<>>
Returned(v) == result = <<v>>

Return(v) ==
    /\ result' = <<v>>
    /\ UNCHANGED <<a0, b0, c0, a, b, depth, rel>>
    /\ UNCHANGED listVars

Recurse(x, y) ==
    /\ a' = x
    /\ b' = y
    /\ depth' = depth + 1
    /\ UNCHANGED <<a0, b0, c0, result, rel>>
    /\ UNCHANGED listVars

\* lines 34-36
ReturnEmpty ==
    /\ Running
    /\ a = <<>> \/ b = <<>>
    /\ Return(EmptyRule(a, b))

\* lines 41-42
ReturnDigitFirst ==
    /\ Running
    /\ a # <<>> /\ b # <<>>
    /\ isdigit(a[1]) /\ ~isdigit(b[1])
    /\ Return(TRUE)

\* lines 43-44
ReturnDigitSecond ==
    /\ Running
    /\ a # <<>> /\ b # <<>>
    /\ ~isdigit(a[1]) /\ isdigit(b[1])
    /\ Return(FALSE)

RecurseLetterKeepB ==
    /\ Running
    /\ a # <<>> /\ b # <<>>
    /\ ~isdigit(a[1]) /\ ~isdigit(b[1])
    /\ SameLetter(a[1], b[1])
    /\ Recurse(Tail(a), b)

\* lines 45-48
RecurseLetter ==
    /\ Running
    /\ a # <<>> /\ b # <<>>
    /\ ~isdigit(a[1]) /\ ~isdigit(b[1])
    /\ SameLetter(a[1], b[1])
    /\ Recurse(Tail(a), Tail(b))

\* lines 45, 49
ReturnLetter ==
    /\ Running
    /\ a # <<>> /\ b # <<>>
    /\ ~isdigit(a[1]) /\ ~isdigit(b[1])
    /\ ~SameLetter(a[1], b[1])
    /\ Return(LetterLess(a[1], b[1]))

\* lines 52-59
ReturnInt ==
    /\ Running
    /\ a # <<>> /\ b # <<>>
    /\ isdigit(a[1]) /\ isdigit(b[1])
    /\ LET issa == ExtractInt(a)
           issb == ExtractInt(b)
       IN  /\ issa.val # issb.val
           /\ Return(issa.val < issb.val)

\* lines 52-57, 61-65
RecurseInt ==
    /\ Running
    /\ a # <<>> /\ b # <<>>
    /\ isdigit(a[1]) /\ isdigit(b[1])
    /\ LET issa == ExtractInt(a)
           issb == ExtractInt(b)
       IN  /\ issa.val = issb.val
           /\ Recurse(getline(issa), getline(issb))

CmpNext ==
    \/ ReturnEmpty
    \/ ReturnDigitFirst
    \/ ReturnDigitSecond
    \/ RecurseLetter
    \/ ReturnLetter
    \/ ReturnInt
    \/ RecurseInt

SpecCmp == CmpInit /\ [][CmpNext]_vars

\* the machine and the recursive operator are the same function
MachineAgrees == ~Running => Returned(compare_path_natural(a0, b0))

\* a called function runs to its return: the machine does not stop half way
SpecCmpFair == SpecCmp /\ WF_vars(CmpNext)

----------------------------------------------------------------------------
(* Reference notions the comparator claims are stated with *)

Min(m, n) == IF m < n THEN m ELSE n

DigitLeading(s) == s # <<>> /\ isdigit(s[1])
LeadingRun(s) == SubSeq(s, 1, DigitRunLen(s))
AfterRun(s) == SubSeq(s, DigitRunLen(s) + 1, Len(s))

RECURSIVE StripZeros(_)
StripZeros(ds) ==
    IF ds # <<>> /\ ds[1] = 48 THEN StripZeros(Tail(ds)) ELSE ds

RECURSIVE LexLess(_, _)
LexLess(x, y) ==
    /\ x # <<>>
    /\ y # <<>>
    /\ \/ x[1] < y[1]
       \/ x[1] = y[1] /\ LexLess(Tail(x), Tail(y))

\* the integers two digit runs denote, compared without any machine width
NumEq(x, y) == StripZeros(x) = StripZeros(y)
NumLess(x, y) ==
    LET p == StripZeros(x)
        q == StripZeros(y)
    IN  Len(p) < Len(q) \/ (Len(p) = Len(q) /\ LexLess(p, q))

Fold(c) == IF c \in 65..90 THEN c + 32 ELSE c
CaseEq(x, y) ==
    /\ Len(x) = Len(y)
    /\ \A i \in 1..Len(x) : Fold(x[i]) = Fold(y[i])

HasDigit(s) == \E i \in 1..Len(s) : isdigit(s[i])

----------------------------------------------------------------------------
(* Claims about compare_path_natural *)

\* C5: for two digit-leading strings whose leading digit runs denote
\* different integers, the comparator answers "less" exactly when the first
\* integer is the smaller, whatever the length of the runs.
C5_NumericOrder ==
    (~Running /\ DigitLeading(a0) /\ DigitLeading(b0)
        /\ ~NumEq(LeadingRun(a0), LeadingRun(b0)))
    => Returned(NumLess(LeadingRun(a0), LeadingRun(b0)))

\* C6: two strings that differ only in the case of ASCII letters are
\* equivalent: the comparator answers "not less" in both directions.
C6_CaseInsensitive ==
    (~Running /\ CaseEq(a0, b0))
    => (Returned(FALSE) /\ ~compare_path_natural(b0, a0))

C6_Witness ==
    /\ Returned(FALSE)
    /\ CaseEq(a0, b0)
    /\ a0 # b0
    /\ HasDigit(a0)
    /\ depth >= 3

\* C9: the comparator terminates: every recursive call is made with both
\* operands non-empty and receives operands that are both strictly shorter,
\* a call with an empty operand returns, the number of nested calls never
\* exceeds the length of the shorter argument plus one, and the outermost
\* call eventually returns.
C9_Termination ==
    /\ [](depth <= Min(Len(a0), Len(b0)) + 1)
    /\ [][depth' # depth =>
            /\ a # <<>> /\ b # <<>>
            /\ Len(a') < Len(a)
            /\ Len(b') < Len(b)]_vars
    /\ [][(a = <<>> \/ b = <<>>) => ~Running']_vars
    /\ <>(~Running)

C9_Witness ==
    /\ ~Running
    /\ depth >= 4
    /\ depth = Min(Len(a0), Len(b0)) + 1
    /\ HasDigit(a0)
    /\ Len(a0) # Len(b0)

\* C10: for two digit-leading strings whose leading digit runs denote the
\* same integer, the comparator's answer is its answer on the two
\* remainders, each the entire rest of its string after the digit run.
C10_EqualRunsRecurseOnRest ==
    (~Running /\ DigitLeading(a0) /\ DigitLeading(b0)
        /\ NumEq(LeadingRun(a0), LeadingRun(b0)))
    => Returned(compare_path_natural(AfterRun(a0), AfterRun(b0)))

----------------------------------------------------------------------------
(* std::sort(first, last, comp), line 124.  The library guarantees a       *)
(* permutation of the input that is sorted by comp when comp is a strict   *)
(* weak ordering, and leaves the relative order of equivalent elements     *)
(* unspecified (introsort: partitioning swaps followed by a final          *)
(* insertion sort).  Modelled as an arbitrary rearrangement followed by an *)
(* insertion sort that uses the comparator.                                *)

Bijections(n) == {f \in [1..n -> 1..n] : \A i, j \in 1..n : f[i] = f[j] => i = j}
Rearrangements(v) ==
    {[i \in 1..Len(v) |-> v[f[i]]] : f \in Bijections(Len(v))}

\* place x into the sorted sequence s, moving it left past every element it
\* is less than
RECURSIVE LinearInsert(_, _)
LinearInsert(s, x) ==
    IF s = <<>> \/ ~compare_path_natural(x, s[Len(s)])
    THEN Append(s, x)
    ELSE Append(LinearInsert(SubSeq(s, 1, Len(s) - 1), x), s[Len(s)])

RECURSIVE InsertionSortFrom(_, _)
InsertionSortFrom(done, todo) ==
    IF todo = <<>> THEN done
    ELSE InsertionSortFrom(LinearInsert(done, todo[1]), Tail(todo))

std_sort_omitted(v) == {v}
std_sort(v) == {InsertionSortFrom(<<>>, p) : p \in Rearrangements(v)}

----------------------------------------------------------------------------
(* list_directory, lines 105-127 *)

n_A_png == s_A \o s_png
n_a_png == s_a \o s_png
n_img7 == s_img \o Digits(<<7>>) \o s_png
n_img007 == s_img \o Digits(<<0,0,7>>) \o s_png
n_f10 == s_f \o Digits(<<1,0>>) \o s_png
n_f2 == s_f \o Digits(<<2>>) \o s_png

\* what readdir may return: any name with any d_type
DirNames == {n_A_png, n_a_png, n_img7, n_img007, n_f10, n_f2}
DirTypes == {"DT_REG", "DT_DIR"}

\* line 117: the entries the loop keeps
is_kept_any(ent) == TRUE
is_kept(ent) == ent.d_type = "DT_REG"

ListInit ==
    /\ a0 = <<>> /\ b0 = <<>> /\ c0 = <<>>
    /\ a = <<>> /\ b = <<>>
    /\ depth = 0
    /\ result = <<>>
    /\ rel = NoRel
    /\ ListIdle

\* the caller calls list_directory(dirpath, imagepaths); imagepaths holds
\* whatever the previous call left in it
Call ==
    /\ pc \in {"idle", "done"}
    /\ pc' = "clear"
    /\ dir' = "none"
    /\ entries' = <<>>
    /\ closes' = 0
    /\ presort' = <<>>
    /\ beforeLen' = Len(imagepaths)
    /\ status' = <<>>
    /\ UNCHANGED imagepaths
    /\ UNCHANGED cmpVars

ClearOmitted ==
    /\ pc = "clear"
    /\ pc' = "opendir"
    /\ UNCHANGED <<imagepaths, dir, entries, closes, presort, beforeLen, status>>
    /\ UNCHANGED cmpVars

\* line 107
Clear ==
    /\ pc = "clear"
    /\ imagepaths' = <<>>
    /\ pc' = "opendir"
    /\ UNCHANGED <<dir, entries, closes, presort, beforeLen, status>>
    /\ UNCHANGED cmpVars

\* lines 109-113: opendir returns NULL
OpenFail ==
    /\ pc = "opendir"
    /\ dir' = "null"
    /\ status' = <<-1>>
    /\ pc' = "done"
    /\ UNCHANGED <<imagepaths, entries, closes, presort, beforeLen>>
    /\ UNCHANGED cmpVars

\* lines 109-110: opendir returns a handle
OpenOk ==
    /\ pc = "opendir"
    /\ dir' = "open"
    /\ pc' = "readdir"
    /\ UNCHANGED <<imagepaths, entries, closes, presort, beforeLen, status>>
    /\ UNCHANGED cmpVars

\* lines 116-118: readdir returns an entry the filter skips
ReadSkip ==
    /\ pc = "readdir"
    /\ Len(entries) < MaxEntries
    /\ \E n \in DirNames, ty \in DirTypes :
          LET ent == [d_name |-> n, d_type |-> ty] IN
          /\ ~is_kept(ent)
          /\ entries' = Append(entries, ent)
    /\ UNCHANGED <<pc, imagepaths, dir, closes, presort, beforeLen, status>>
    /\ UNCHANGED cmpVars

\* lines 116-120: readdir returns an entry the filter keeps
ReadKeep ==
    /\ pc = "readdir"
    /\ Len(entries) < MaxEntries
    /\ \E n \in DirNames, ty \in DirTypes :
          LET ent == [d_name |-> n, d_type |-> ty] IN
          /\ is_kept(ent)
          /\ entries' = Append(entries, ent)
          /\ imagepaths' = Append(imagepaths, ent.d_name)
    /\ UNCHANGED <<pc, dir, closes, presort, beforeLen, status>>
    /\ UNCHANGED cmpVars

\* line 116: readdir returns NULL, the loop ends
ReadEnd ==
    /\ pc = "readdir"
    /\ pc' = "closedir"
    /\ UNCHANGED <<imagepaths, dir, entries, closes, presort, beforeLen, status>>
    /\ UNCHANGED cmpVars

CloseDirOmitted ==
    /\ pc = "closedir"
    /\ pc' = "sort"
    /\ UNCHANGED <<imagepaths, dir, entries, closes, presort, beforeLen, status>>
    /\ UNCHANGED cmpVars

\* line 123
CloseDir ==
    /\ pc = "closedir"
    /\ dir' = "closed"
    /\ closes' = closes + 1
    /\ pc' = "sort"
    /\ UNCHANGED <<imagepaths, entries, presort, beforeLen, status>>
    /\ UNCHANGED cmpVars

\* line 124
Sort ==
    /\ pc = "sort"
    /\ presort' = imagepaths
    /\ imagepaths' \in std_sort(imagepaths)
    /\ pc' = "return"
    /\ UNCHANGED <<dir, entries, closes, beforeLen, status>>
    /\ UNCHANGED cmpVars

\* line 126
ReturnOk ==
    /\ pc = "return"
    /\ status' = <<0>>
    /\ pc' = "done"
    /\ UNCHANGED <<imagepaths, dir, entries, closes, presort, beforeLen>>
    /\ UNCHANGED cmpVars

ListNext ==
    \/ Call
    \/ Clear
    \/ OpenFail
    \/ OpenOk
    \/ ReadSkip
    \/ ReadKeep
    \/ ReadEnd
    \/ CloseDir
    \/ Sort
    \/ ReturnOk

SpecList == ListInit /\ [][ListNext]_vars

----------------------------------------------------------------------------
(* Reference notions the list_directory claims are stated with *)

ReturnedStatus(v) == pc = "done" /\ status = <<v>>

Count(s, x) == Cardinality({i \in 1..Len(s) : s[i] = x})
CountRegular(es, x) ==
    Cardinality({i \in 1..Len(es) : es[i].d_type = "DT_REG" /\ es[i].d_name = x})

SortedByComparator(s) ==
    \A i, j \in 1..Len(s) : i < j => ~compare_path_natural(s[j], s[i])

----------------------------------------------------------------------------
(* Claims about list_directory *)

\* C1: when list_directory returns 0 the output is sorted ascending by the
\* comparator: no later element is less than an earlier one.
C1_OutputSorted ==
    ReturnedStatus(0) => SortedByComparator(imagepaths)

C1_Witness ==
    /\ ReturnedStatus(0)
    /\ Len(imagepaths) >= 2
    /\ ~SortedByComparator(presort)
    /\ \E i \in 1..Len(entries) : entries[i].d_type # "DT_REG"

\* C2: when list_directory returns 0 the output holds, as a multiset,
\* exactly the names of the enumerated entries typed as regular files:
\* nothing else, nothing fewer, nothing left from before the call.
C2_ExactlyRegularFiles ==
    ReturnedStatus(0) =>
        /\ \A i \in 1..Len(imagepaths) : imagepaths[i] \in DirNames
        /\ \A n \in DirNames : Count(imagepaths, n) = CountRegular(entries, n)

C2_Witness ==
    /\ ReturnedStatus(0)
    /\ beforeLen > Len(imagepaths)
    /\ \E i, j \in 1..Len(entries) :
          /\ i # j
          /\ entries[i] = entries[j]
          /\ entries[i].d_type = "DT_REG"
    /\ \E i \in 1..Len(entries) : entries[i].d_type # "DT_REG"

\* C3: when the directory cannot be opened list_directory returns nonzero
\* with an empty output, whatever the output held before; and it returns 0
\* only when the directory was opened.
C3_OpenFailure ==
    /\ (pc = "done" /\ dir = "null") => (status # <<0>> /\ imagepaths = <<>>)
    /\ ReturnedStatus(0) => dir \in {"open", "closed"}

C3_Witness ==
    /\ pc = "done"
    /\ dir = "null"
    /\ status = <<-1>>
    /\ beforeLen >= 2

\* C7: the directory handle is released before list_directory returns: it
\* stays open while entries are read, is closed exactly once before the
\* sort and the return, never exists after a failed open, and is never open
\* once the call has returned.
C7_HandleReleased ==
    /\ pc \in {"readdir", "closedir"} => (dir = "open" /\ closes = 0)
    /\ pc \in {"sort", "return"} => (dir = "closed" /\ closes = 1)
    /\ ReturnedStatus(0) => (dir = "closed" /\ closes = 1)
    /\ (pc = "done" /\ status # <<0>>) => (dir = "null" /\ closes = 0)
    /\ pc \in {"idle", "done"} => dir # "open"

C7_Witness ==
    /\ ReturnedStatus(0)
    /\ closes = 1
    /\ \E i \in 1..Len(entries) : entries[i].d_type = "DT_REG"
    /\ \E i \in 1..Len(entries) : entries[i].d_type # "DT_REG"

\* C8: sorting as list_directory does is idempotent: when the sequence
\* handed to the sort is already sorted by the comparator, the sorted
\* output is that same sequence, element for element.
C8_SortIdempotent ==
    (pc \in {"return", "done"} /\ SortedByComparator(presort))
    => imagepaths = presort

----------------------------------------------------------------------------
(* The comparator applied to the pairs of three strings, as a sort does   *)

OrdInit ==
    /\ a0 \in OrdInputs
    /\ b0 \in OrdInputs
    /\ c0 \in OrdInputs
    /\ a = <<>> /\ b = <<>>
    /\ depth = 0
    /\ result = <<>>
    /\ rel = NoRel
    /\ ListIdle

CompareAll ==
    /\ ~rel.done
    /\ rel' = [ab |-> compare_path_natural(a0, b0),
               ba |-> compare_path_natural(b0, a0),
               bc |-> compare_path_natural(b0, c0),
               cb |-> compare_path_natural(c0, b0),
               ac |-> compare_path_natural(a0, c0),
               ca |-> compare_path_natural(c0, a0),
               aa |-> compare_path_natural(a0, a0),
               done |-> TRUE]
    /\ UNCHANGED <<a0, b0, c0, a, b, depth, result>>
    /\ UNCHANGED listVars

OrdNext == CompareAll

SpecOrd == OrdInit /\ [][OrdNext]_vars

\* C4: compare_path_natural is a strict weak ordering: irreflexive,
\* asymmetric, transitive, and with a transitive incomparability relation.
C4_StrictWeakOrdering ==
    rel.done =>
        /\ ~rel.aa
        /\ rel.ab => ~rel.ba
        /\ (rel.ab /\ rel.bc) => rel.ac
        /\ (~rel.ab /\ ~rel.ba /\ ~rel.bc /\ ~rel.cb) => (~rel.ac /\ ~rel.ca)

C4_Witness ==
    /\ rel.done
    /\ a0 # b0 /\ b0 # c0 /\ a0 # c0
    /\ ~rel.ab /\ ~rel.ba /\ ~rel.bc /\ ~rel.cb
    /\ HasDigit(a0)
    /\ \E i \in 1..Len(a0) : a0[i] \in {65, 97}

====
